---- MODULE Spec2Model ----
\* BLE gyroscope frame pipeline: BLE_UART_InString (frame assembly),
\* ValidateBLEPacket / ValidateCRC (validation), ExtractFloat (decode),
\* MotorControlFromGyro (command mapping) and the loop of main that chains them.
EXTENDS Integers, Sequences, FiniteSets, TLC

VARIABLES
    pc,               \* position of the program: "main", "instring", "returned", "fn", ...
    rx,               \* bytes in flight from the BLE module to EUSCI_A3->RXBUF
    sent,             \* number of items the BLE module has sent so far
    consumed,         \* bytes BLE_UART_InChar has returned to the current BLE_UART_InString call
    BLE_UART_Buffer,  \* main's uint8_t BLE_UART_Buffer[128]
    buffer_size,      \* BLE_UART_InString's parameter
    buffer_pointer,   \* BLE_UART_InString's write cursor, as an offset into the caller's buffer
    length,           \* BLE_UART_InString's local
    state,            \* BLE_UART_InString's local
    stores,           \* offsets BLE_UART_InString has stored to during the current call
    hostOrder,        \* byte order of the host's float object representation
    len_arg,          \* BLE_UART_HandleRxData's parameter len
    afterInvalid,     \* the previous iteration of main printed "Invalid BLE Packet"
    crcOK,            \* last result of ValidateCRC
    pktOK,            \* last result of ValidateBLEPacket
    decoded,          \* main reached the ExtractFloat calls in the last iteration
    sample,           \* <<x, y, z>> last decoded by ExtractFloat
    diag,             \* diagnostics printed in the last iteration
    cmds              \* Motor_* calls made by the last MotorControlFromGyro

vars == <<pc, rx, sent, consumed, BLE_UART_Buffer, buffer_size, buffer_pointer,
          length, state, stores, hostOrder, len_arg, afterInvalid, crcOK, pktOK, decoded,
          sample, diag, cmds>>

-----------------------------------------------------------------------------
\* Program constants

BLE_UART_BUFFER_SIZE == 128
MARKER0 == 33
MARKER1 == 71
FRAME_LEN == 15
CRC_LEN == 14
DUTY == 3000

\* Bound of the model: how many items (noise bytes or frames) the BLE module sends.
MaxItems == 4

Byte == 0..255

-----------------------------------------------------------------------------
\* IEEE-754 binary32 values, kept as sign and 31-bit magnitude of the bit pattern.

\* Smallest binary32 magnitude whose value exceeds the double constant 0.2
\* (0x3E4CCCCD = 0.2f = 0.20000000298...; 0x3E4CCCCC = 0.19999998807...).
F_THRESHOLD == 1045220557

Float32(sign, mag) == [sign |-> sign, mag |-> mag]

\* Assemble a bit pattern from its four bytes, least significant first.
Pattern(lsb, b1, b2, msb) ==
    Float32(msb \div 128, lsb + 256 * b1 + 65536 * b2 + 16777216 * (msb % 128))

\* Magnitudes above that of the infinities (0x7F800000) are NaNs; every ordered
\* comparison with a NaN is false.
IsNaN(v) == v.mag > 2139095040

\* v > 0.2, v promoted to double as in `y > 0.2`
GreaterThanT(v) == ~IsNaN(v) /\ v.sign = 0 /\ v.mag >= F_THRESHOLD
\* v < -0.2
LessThanMinusT(v) == ~IsNaN(v) /\ v.sign = 1 /\ v.mag >= F_THRESHOLD
\* fabs(v) <= 0.2
FabsWithinT(v) == ~IsNaN(v) /\ v.mag < F_THRESHOLD

-----------------------------------------------------------------------------
\* GyroParser.c

\* The uint8_t accumulator of ValidateCRC after adding buffer[0..n-1].
RECURSIVE CrcSum(_, _)
CrcSum(buffer, n) ==
    IF n = 0 THEN 0 ELSE (CrcSum(buffer, n - 1) + buffer[n - 1]) % 256

\* ValidateCRC with the inversion of the sum left out.
ValidateCRC_NoInvert(buffer) ==
    LET sum == CrcSum(buffer, CRC_LEN)
    IN  sum = buffer[14]

ValidateCRC(buffer) ==
    LET sum == CrcSum(buffer, CRC_LEN)
        inverted == 255 - sum          \* sum = ~sum, truncated to uint8_t
    IN  inverted = buffer[14]

\* ValidateBLEPacket with && for || in the prefix test.
ValidateBLEPacket_BothWrong(buffer) ==
    IF buffer[0] # MARKER0 /\ buffer[1] # MARKER1
    THEN FALSE
    ELSE ValidateCRC(buffer)

ValidateBLEPacket(buffer) ==
    IF buffer[0] # MARKER0 \/ buffer[1] # MARKER1
    THEN FALSE
    ELSE ValidateCRC(buffer)

\* memcpy(&value, &buffer[offset], 4): the four bytes become the object
\* representation of the float in memory order, so which of them is the most
\* significant is the host's byte order.
ExtractFloat(buffer, offset) ==
    IF hostOrder = "little"
    THEN Pattern(buffer[offset], buffer[offset + 1], buffer[offset + 2], buffer[offset + 3])
    ELSE Pattern(buffer[offset + 3], buffer[offset + 2], buffer[offset + 1], buffer[offset])

\* What ParseBLEPacket prints.
ParseBLEPacket(buffer) ==
    IF ~ValidateBLEPacket(buffer)
    THEN <<"Invalid BLE Packet">>
    ELSE <<"Parsed Floats">>

-----------------------------------------------------------------------------
\* The BLE module (the far end of EUSCI_A3): what BLE_UART_InChar will return.

\* Sum of the elements of a sequence of bytes.
RECURSIVE SeqSum(_)
SeqSum(s) == IF s = <<>> THEN 0 ELSE Head(s) + SeqSum(Tail(s))

\* The checksum byte a sender appends to 14 bytes (wire format of the frame).
Checksum(bytes) == 255 - (SeqSum(bytes) % 256)

\* The four bytes of a binary32 value on the wire, least significant first.
LEBytes(v) ==
    << v.mag % 256, (v.mag \div 256) % 256, (v.mag \div 65536) % 256,
       (v.mag \div 16777216) + 128 * v.sign >>

\* A frame as sent: marker bytes, three values, and a checksum byte that is the
\* right one plus `skew` (mod 256).
Frame(b0, b1, x, y, z, skew) ==
    LET head == <<b0, b1>> \o LEBytes(x) \o LEBytes(y) \o LEBytes(z)
    IN  Append(head, (Checksum(head) + skew) % 256)

F_HALF == Float32(0, 1056964608)        \*  0.5
F_MINUS_HALF == Float32(1, 1056964608)  \* -0.5
F_TENTH == Float32(0, 1036831949)       \*  0.1
F_ZERO == Float32(0, 0)
\* A z value whose wire bytes are 21 47 00 00: a marker pair inside the payload.
F_MARKERS == Float32(0, 18209)

\* The samples the BLE module sends in the pipeline specification.
TxSamples ==
    { <<F_HALF, F_HALF, F_ZERO>>, <<F_TENTH, F_TENTH, F_ZERO>>,
      <<F_MINUS_HALF, F_TENTH, F_MARKERS>> }

\* Frames on the wire: well-formed ones and ones with a damaged checksum byte.
TxFrames ==
    { Frame(MARKER0, MARKER1, s[1], s[2], s[3], skew) : s \in TxSamples, skew \in {0, 1} }

\* Line noise: single bytes between frames.
NoiseBytes == {MARKER0, MARKER1, 0}

TxItems == TxFrames \cup { <<b>> : b \in NoiseBytes }

\* The BLE module puts its next item on the wire once the previous one has been
\* read and the program is waiting in BLE_UART_InChar.
SenderSend ==
    /\ pc = "instring"
    /\ rx = <<>>
    /\ sent < MaxItems
    /\ \E item \in TxItems : rx' = item
    /\ sent' = sent + 1
    /\ UNCHANGED <<pc, consumed, BLE_UART_Buffer, buffer_size, buffer_pointer, length,
                   state, stores, hostOrder, len_arg, afterInvalid, crcOK, pktOK, decoded,
                   sample, diag, cmds>>

-----------------------------------------------------------------------------
\* BLE_UART.c

\* *buffer_pointer++ = character, with buffer_pointer kept as an offset. A store
\* past the end of the caller's array does not land in the array.
Store(buf, ptr, character) ==
    IF ptr \in DOMAIN buf THEN [buf EXCEPT ![ptr] = character] ELSE buf

\* The loop body with the full-packet test off by one (length == 14).
InStringIter_Break14(buf, ptr, len, st, character) ==
    IF st = 0 /\ character = MARKER0 THEN
        [buf |-> Store(buf, ptr, character), ptr |-> ptr + 1, len |-> 1, st |-> 1,
         brk |-> FALSE, at |-> ptr]
    ELSE IF st = 1 /\ character = MARKER1 THEN
        [buf |-> Store(buf, ptr, character), ptr |-> ptr + 1, len |-> len + 1, st |-> 2,
         brk |-> FALSE, at |-> ptr]
    ELSE IF st = 2 THEN
        [buf |-> Store(buf, ptr, character), ptr |-> ptr + 1, len |-> len + 1, st |-> 2,
         brk |-> (len + 1 = FRAME_LEN - 1), at |-> ptr]
    ELSE
        [buf |-> buf, ptr |-> ptr - 0, len |-> 0, st |-> 0, brk |-> FALSE, at |-> -1]

\* The loop body with a 0x21 restarting the scan while collecting.
InStringIter_RestartOnMarker(buf, ptr, len, st, character) ==
    IF (st = 0 \/ st = 2) /\ character = MARKER0 THEN
        [buf |-> Store(buf, ptr, character), ptr |-> ptr + 1, len |-> 1, st |-> 1,
         brk |-> FALSE, at |-> ptr]
    ELSE IF st = 1 /\ character = MARKER1 THEN
        [buf |-> Store(buf, ptr, character), ptr |-> ptr + 1, len |-> len + 1, st |-> 2,
         brk |-> FALSE, at |-> ptr]
    ELSE IF st = 2 THEN
        [buf |-> Store(buf, ptr, character), ptr |-> ptr + 1, len |-> len + 1, st |-> 2,
         brk |-> (len + 1 = FRAME_LEN), at |-> ptr]
    ELSE
        [buf |-> buf, ptr |-> ptr - 0, len |-> 0, st |-> 0, brk |-> FALSE, at |-> -1]

\* The loop body with a 0x21 that arrives in state 1 taken as a new marker start.
InStringIter_Rescan(buf, ptr, len, st, character) ==
    IF st = 0 /\ character = MARKER0 THEN
        [buf |-> Store(buf, ptr, character), ptr |-> ptr + 1, len |-> 1, st |-> 1,
         brk |-> FALSE, at |-> ptr]
    ELSE IF st = 1 /\ character = MARKER1 THEN
        [buf |-> Store(buf, ptr, character), ptr |-> ptr + 1, len |-> len + 1, st |-> 2,
         brk |-> FALSE, at |-> ptr]
    ELSE IF st = 1 /\ character = MARKER0 THEN
        [buf |-> buf, ptr |-> ptr, len |-> 1, st |-> 1, brk |-> FALSE, at |-> -1]
    ELSE IF st = 2 THEN
        [buf |-> Store(buf, ptr, character), ptr |-> ptr + 1, len |-> len + 1, st |-> 2,
         brk |-> (len + 1 = FRAME_LEN), at |-> ptr]
    ELSE
        [buf |-> buf, ptr |-> ptr - 0, len |-> 0, st |-> 0, brk |-> FALSE, at |-> -1]

\* One iteration of the while loop of BLE_UART_InString on the byte read.
\* brk: the loop was left by break; at: the offset stored to, or -1.
InStringIter(buf, ptr, len, st, character) ==
    IF st = 0 /\ character = MARKER0 THEN
        [buf |-> Store(buf, ptr, character), ptr |-> ptr + 1, len |-> 1, st |-> 1,
         brk |-> FALSE, at |-> ptr]
    ELSE IF st = 1 /\ character = MARKER1 THEN
        [buf |-> Store(buf, ptr, character), ptr |-> ptr + 1, len |-> len + 1, st |-> 2,
         brk |-> FALSE, at |-> ptr]
    ELSE IF st = 2 THEN
        [buf |-> Store(buf, ptr, character), ptr |-> ptr + 1, len |-> len + 1, st |-> 2,
         brk |-> (len + 1 = FRAME_LEN), at |-> ptr]
    ELSE
        \* state = 0; length = 0; buffer_pointer = buffer_pointer - length;
        \* length is already 0 when it is subtracted
        [buf |-> buf, ptr |-> ptr - 0, len |-> 0, st |-> 0, brk |-> FALSE, at |-> -1]

\* BLE_UART_InString: one pass of the loop body, then the loop condition.
InStringRead ==
    /\ pc = "instring"
    /\ length < buffer_size
    /\ rx # <<>>
    /\ LET character == Head(rx)
           r == InStringIter(BLE_UART_Buffer, buffer_pointer, length, state, character)
       IN  /\ rx' = Tail(rx)
           /\ consumed' = Append(consumed, character)
           /\ BLE_UART_Buffer' = r.buf
           /\ buffer_pointer' = r.ptr
           /\ length' = r.len
           /\ state' = r.st
           /\ stores' = IF r.at = -1 THEN stores ELSE stores \cup {r.at}
           /\ pc' = IF r.brk \/ ~(r.len < buffer_size) THEN "returned" ELSE "instring"
    /\ UNCHANGED <<sent, buffer_size, hostOrder, len_arg, afterInvalid, crcOK, pktOK, decoded,
                   sample, diag, cmds>>

\* The uint8_t accumulator of checkCRC after adding buffer[0..n-1].
RECURSIVE CheckCrcSum(_, _)
CheckCrcSum(buffer, n) ==
    IF n = 0 THEN 0 ELSE (CheckCrcSum(buffer, n - 1) + buffer[n - 1]) % 256

\* checkCRC with the loop running over all 15 bytes.
checkCRC_Sum15(buffer) ==
    LET sum == CheckCrcSum(buffer, CRC_LEN + 1)
        inverted == 255 - sum
    IN  inverted = buffer[14]

checkCRC(buffer) ==
    LET sum == CheckCrcSum(buffer, CRC_LEN)
        inverted == 255 - sum          \* sum = ~sum, truncated to uint8_t
    IN  inverted = buffer[14]

\* BLE_UART_HandleRxData with the return after the CRC error left out.
BLE_UART_HandleRxData_NoReturn(buffer, len) ==
    IF len # FRAME_LEN \/ buffer[0] # MARKER0 \/ buffer[1] # MARKER1
    THEN <<"Error: Invalid data received">>
    ELSE IF ~checkCRC(buffer)
    THEN <<"checkCRC", "Error: CRC check failed", "ParseBLEPacket">> \o ParseBLEPacket(buffer)
    ELSE <<"checkCRC", "ParseBLEPacket">> \o ParseBLEPacket(buffer)

\* BLE_UART_HandleRxData: the calls it makes and the strings it and
\* ParseBLEPacket print, in program order.
BLE_UART_HandleRxData(buffer, len) ==
    IF len # FRAME_LEN \/ buffer[0] # MARKER0 \/ buffer[1] # MARKER1
    THEN <<"Error: Invalid data received">>
    ELSE IF ~checkCRC(buffer)
    THEN <<"checkCRC", "Error: CRC check failed">>
    ELSE <<"checkCRC", "ParseBLEPacket">> \o ParseBLEPacket(buffer)

-----------------------------------------------------------------------------
\* main.c

Forward == <<"Forward", DUTY, DUTY>>
Backward == <<"Backward", DUTY, DUTY>>
Right == <<"Right", DUTY, DUTY>>
Left == <<"Left", DUTY, DUTY>>
Stop == <<"Stop">>

\* MotorControlFromGyro with the x-axis block placed before the y-axis block.
MotorControlFromGyro_XFirst(x, y, z) ==
    LET yCmd == IF GreaterThanT(y) THEN <<Forward>>
                ELSE IF LessThanMinusT(y) THEN <<Backward>>
                ELSE <<>>
        xCmd == IF GreaterThanT(x) THEN <<Right>>
                ELSE IF LessThanMinusT(x) THEN <<Left>>
                ELSE <<>>
        stop == IF FabsWithinT(x) /\ FabsWithinT(y) THEN <<Stop>> ELSE <<>>
    IN  xCmd \o yCmd \o stop

\* MotorControlFromGyro with || for && in the stop test.
MotorControlFromGyro_StopEither(x, y, z) ==
    LET yCmd == IF GreaterThanT(y) THEN <<Forward>>
                ELSE IF LessThanMinusT(y) THEN <<Backward>>
                ELSE <<>>
        xCmd == IF GreaterThanT(x) THEN <<Right>>
                ELSE IF LessThanMinusT(x) THEN <<Left>>
                ELSE <<>>
        stop == IF FabsWithinT(x) \/ FabsWithinT(y) THEN <<Stop>> ELSE <<>>
    IN  yCmd \o xCmd \o stop

\* MotorControlFromGyro with z in place of y in the stop test.
MotorControlFromGyro_StopOnZ(x, y, z) ==
    LET yCmd == IF GreaterThanT(y) THEN <<Forward>>
                ELSE IF LessThanMinusT(y) THEN <<Backward>>
                ELSE <<>>
        xCmd == IF GreaterThanT(x) THEN <<Right>>
                ELSE IF LessThanMinusT(x) THEN <<Left>>
                ELSE <<>>
        stop == IF FabsWithinT(x) /\ FabsWithinT(z) THEN <<Stop>> ELSE <<>>
    IN  yCmd \o xCmd \o stop

\* MotorControlFromGyro with a larger threshold (0.5) in the y-axis tests than
\* in the stop test.
MotorControlFromGyro_DeadBand(x, y, z) ==
    LET yCmd == IF GreaterThanT(y) /\ y.mag > F_HALF.mag THEN <<Forward>>
                ELSE IF LessThanMinusT(y) /\ y.mag > F_HALF.mag THEN <<Backward>>
                ELSE <<>>
        xCmd == IF GreaterThanT(x) THEN <<Right>>
                ELSE IF LessThanMinusT(x) THEN <<Left>>
                ELSE <<>>
        stop == IF FabsWithinT(x) /\ FabsWithinT(y) THEN <<Stop>> ELSE <<>>
    IN  yCmd \o xCmd \o stop

\* The Motor_* calls MotorControlFromGyro makes, in program order.
MotorControlFromGyro(x, y, z) ==
    LET yCmd == IF GreaterThanT(y) THEN <<Forward>>
                ELSE IF LessThanMinusT(y) THEN <<Backward>>
                ELSE <<>>
        xCmd == IF GreaterThanT(x) THEN <<Right>>
                ELSE IF LessThanMinusT(x) THEN <<Left>>
                ELSE <<>>
        stop == IF FabsWithinT(x) /\ FabsWithinT(y) THEN <<Stop>> ELSE <<>>
    IN  yCmd \o xCmd \o stop

\* The call with a write cursor that survives from the previous call (as a
\* static cursor would).
MainCallInString_KeepCursor ==
    /\ pc = "main"
    /\ length' = 0
    /\ state' = 0
    /\ consumed' = <<>>
    /\ stores' = {}
    /\ afterInvalid' = (\E i \in DOMAIN diag : diag[i] = "Invalid BLE Packet")
    /\ pc' = IF 0 < buffer_size THEN "instring" ELSE "returned"
    /\ UNCHANGED <<rx, sent, BLE_UART_Buffer, buffer_size, buffer_pointer, hostOrder, len_arg,
                   crcOK, pktOK, decoded, sample, diag, cmds>>

\* main: int string_size = BLE_UART_InString((char *)BLE_UART_Buffer, BLE_UART_BUFFER_SIZE);
\* entry of the call: the locals are initialised and the loop condition is tested.
MainCallInString ==
    /\ pc = "main"
    /\ buffer_pointer' = 0
    /\ length' = 0
    /\ state' = 0
    /\ consumed' = <<>>
    /\ stores' = {}
    /\ afterInvalid' = (\E i \in DOMAIN diag : diag[i] = "Invalid BLE Packet")
    /\ pc' = IF 0 < buffer_size THEN "instring" ELSE "returned"
    /\ UNCHANGED <<rx, sent, BLE_UART_Buffer, buffer_size, hostOrder, len_arg, crcOK, pktOK,
                   decoded, sample, diag, cmds>>

\* main: the rest of the loop body, after BLE_UART_InString has returned.
MainProcess ==
    /\ pc = "returned"
    /\ LET string_size == length IN
       IF string_size > 0 THEN
           LET x == ExtractFloat(BLE_UART_Buffer, 2)
               y == ExtractFloat(BLE_UART_Buffer, 6)
               z == ExtractFloat(BLE_UART_Buffer, 10)
           IN  /\ diag' = <<"BLE UART Raw Data">> \o ParseBLEPacket(BLE_UART_Buffer)
               /\ pktOK' = ValidateBLEPacket(BLE_UART_Buffer)
               /\ decoded' = TRUE
               /\ sample' = <<x, y, z>>
               /\ cmds' = MotorControlFromGyro(x, y, z)
       ELSE
           /\ diag' = <<>>
           /\ decoded' = FALSE
           /\ cmds' = <<>>
           /\ UNCHANGED <<pktOK, sample>>
    /\ pc' = "main"
    /\ UNCHANGED <<rx, sent, consumed, BLE_UART_Buffer, buffer_size, buffer_pointer,
                   length, state, stores, hostOrder, len_arg, afterInvalid, crcOK>>

ZeroBuffer == [i \in 0..(BLE_UART_BUFFER_SIZE - 1) |-> 0]

\* State shared by every specification before anything has run.
Fresh ==
    /\ rx = <<>>
    /\ sent = 0
    /\ consumed = <<>>
    /\ buffer_pointer = 0
    /\ length = 0
    /\ state = 0
    /\ stores = {}
    /\ afterInvalid = FALSE
    /\ len_arg = 0
    /\ crcOK = FALSE
    /\ pktOK = FALSE
    /\ decoded = FALSE
    /\ sample = <<F_ZERO, F_ZERO, F_ZERO>>
    /\ diag = <<>>
    /\ cmds = <<>>

\* The program on the MSP432 (little-endian), at the top of main's while loop
\* with BLE_UART_Buffer zero-initialised.
Init ==
    /\ Fresh
    /\ pc = "main"
    /\ BLE_UART_Buffer = ZeroBuffer
    /\ buffer_size = BLE_UART_BUFFER_SIZE
    /\ hostOrder = "little"

Next == SenderSend \/ MainCallInString \/ InStringRead \/ MainProcess

Spec == Init /\ [][Next]_vars

-----------------------------------------------------------------------------
\* BLE_UART_InString on its own: one call on a zeroed 128-byte array, for each
\* buffer_size a caller may pass.

BufferSizes == {0, 1, 2, 14, 15, 16, BLE_UART_BUFFER_SIZE}

InitInString ==
    /\ Fresh
    /\ BLE_UART_Buffer = ZeroBuffer
    /\ buffer_size \in BufferSizes
    /\ pc = IF 0 < buffer_size THEN "instring" ELSE "returned"
    /\ hostOrder = "little"

NextInString == SenderSend \/ InStringRead

SpecInString == InitInString /\ [][NextInString]_vars

-----------------------------------------------------------------------------
\* The functions of GyroParser.c and MotorControlFromGyro on their own, applied
\* to a 15-byte buffer on a host of either byte order.

F_THREE_HALVES == Float32(0, 1069547520)      \*  1.5
F_MINUS_NINE_QUARTERS == Float32(1, 1074790400) \* -2.25
F_MINUS_TENTH == Float32(1, 1036831949)       \* -0.1
F_JUST_ABOVE == Float32(0, F_THRESHOLD)       \*  0.2f, just above 0.2
F_JUST_BELOW == Float32(0, F_THRESHOLD - 1)   \*  the binary32 just below 0.2
F_MINUS_JUST_ABOVE == Float32(1, F_THRESHOLD)
F_MINUS_JUST_BELOW == Float32(1, F_THRESHOLD - 1)
F_NAN == Float32(0, 2143289344)
F_MINUS_INF == Float32(1, 2139095040)

FnValues ==
    { F_HALF, F_MINUS_HALF, F_TENTH, F_MINUS_TENTH, F_JUST_ABOVE, F_JUST_BELOW,
      F_MINUS_JUST_ABOVE, F_MINUS_JUST_BELOW, F_NAN, F_MINUS_INF, F_THREE_HALVES,
      F_MINUS_NINE_QUARTERS }

FnMarkers == { <<MARKER0, MARKER1>>, <<MARKER0, 0>>, <<0, MARKER1>>, <<MARKER1, MARKER0>> }

FnFrames ==
    { Frame(m[1], m[2], x, y, z, skew) :
        m \in FnMarkers, x \in FnValues, y \in FnValues, z \in {F_ZERO, F_MARKERS},
        skew \in {0, 1, 128, 255} }

\* A byte array holding the frame at offsets 0..14.
Padded(frame) ==
    [i \in 0..(BLE_UART_BUFFER_SIZE - 1) |-> IF i < Len(frame) THEN frame[i + 1] ELSE 0]

InitFn ==
    /\ Fresh
    /\ pc = "fn"
    /\ buffer_size = BLE_UART_BUFFER_SIZE
    /\ hostOrder \in {"little", "big"}
    /\ \E frame \in FnFrames : BLE_UART_Buffer = Padded(frame)

FnValidate ==
    /\ pc = "fn"
    /\ crcOK' = ValidateCRC(BLE_UART_Buffer)
    /\ pktOK' = ValidateBLEPacket(BLE_UART_Buffer)
    /\ diag' = ParseBLEPacket(BLE_UART_Buffer)
    /\ pc' = "fn_validated"
    /\ UNCHANGED <<rx, sent, consumed, BLE_UART_Buffer, buffer_size, buffer_pointer,
                   length, state, stores, hostOrder, len_arg, afterInvalid, decoded, sample, cmds>>

FnExtract ==
    /\ pc = "fn"
    /\ sample' = << ExtractFloat(BLE_UART_Buffer, 2), ExtractFloat(BLE_UART_Buffer, 6),
                    ExtractFloat(BLE_UART_Buffer, 10) >>
    /\ decoded' = TRUE
    /\ pc' = "fn_decoded"
    /\ UNCHANGED <<rx, sent, consumed, BLE_UART_Buffer, buffer_size, buffer_pointer,
                   length, state, stores, hostOrder, len_arg, afterInvalid, crcOK, pktOK, diag, cmds>>

FnMotor ==
    /\ pc = "fn_decoded"
    /\ cmds' = MotorControlFromGyro(sample[1], sample[2], sample[3])
    /\ pc' = "fn_mapped"
    /\ UNCHANGED <<rx, sent, consumed, BLE_UART_Buffer, buffer_size, buffer_pointer,
                   length, state, stores, hostOrder, len_arg, afterInvalid, crcOK, pktOK, decoded,
                   sample, diag>>

\* Values of the uint8_t parameter len that BLE_UART_HandleRxData is applied to.
LenArgs == {0, FRAME_LEN - 1, FRAME_LEN, FRAME_LEN + 1, 255}

FnHandleRxData ==
    /\ pc = "fn"
    /\ \E len \in LenArgs :
          /\ len_arg' = len
          /\ diag' = BLE_UART_HandleRxData(BLE_UART_Buffer, len)
    /\ pc' = "fn_handled"
    /\ UNCHANGED <<rx, sent, consumed, BLE_UART_Buffer, buffer_size, buffer_pointer,
                   length, state, stores, hostOrder, afterInvalid, crcOK, pktOK, decoded,
                   sample, cmds>>

NextFn == FnValidate \/ FnExtract \/ FnMotor \/ FnHandleRxData

SpecFn == InitFn /\ [][NextFn]_vars

-----------------------------------------------------------------------------
\* Vocabulary of the properties: the wire format and the decision rule as the
\* specification words them, independent of the definitions above.

\* The value of a finite or infinite binary32 magnitude exceeds 1/5. With
\* exponent field e and fraction f the value is (2^23 + f) * 2^(e - 150); it is
\* at least 1/4 from e = 125 on, below 1/8 under e = 124, and for e = 124 it
\* exceeds 1/5 exactly when 5 * (2^23 + f) > 2^26.
MagAboveT(mag) ==
    LET e == mag \div 8388608
        f == mag % 8388608
    IN  IF e >= 125 THEN TRUE
        ELSE IF e < 124 THEN FALSE
        ELSE 5 * (8388608 + f) > 67108864

\* NaN: exponent field 255 with a nonzero fraction.
NotANumber(v) == v.mag \div 8388608 = 255 /\ v.mag % 8388608 # 0

AboveT(v) == ~NotANumber(v) /\ v.sign = 0 /\ MagAboveT(v.mag)
BelowMinusT(v) == ~NotANumber(v) /\ v.sign = 1 /\ MagAboveT(v.mag)
WithinT(v) == ~NotANumber(v) /\ ~MagAboveT(v.mag)

YCommand(y) == IF AboveT(y) THEN <<Forward>> ELSE IF BelowMinusT(y) THEN <<Backward>> ELSE <<>>
XCommand(x) == IF AboveT(x) THEN <<Right>> ELSE IF BelowMinusT(x) THEN <<Left>> ELSE <<>>
StopCommand(x, y) == IF WithinT(x) /\ WithinT(y) THEN <<Stop>> ELSE <<>>
Commands(x, y) == YCommand(y) \o XCommand(x) \o StopCommand(x, y)

IsDirectional(c) == c # Stop
Directional(cs) == SelectSeq(cs, IsDirectional)
Emitted(c) == \E i \in DOMAIN cmds : cmds[i] = c

\* Offsets 0..14 of the caller's buffer, as a sequence.
BufferFrame == [i \in 1..FRAME_LEN |-> BLE_UART_Buffer[i - 1]]
\* Offsets 0..13 of the caller's buffer.
BufferHead == [i \in 1..CRC_LEN |-> BLE_UART_Buffer[i - 1]]

\* A well-formed frame of the wire format.
IsValidFrame(f) ==
    /\ Len(f) = FRAME_LEN
    /\ f[1] = MARKER0
    /\ f[2] = MARKER1
    /\ f[FRAME_LEN] = Checksum(SubSeq(f, 1, CRC_LEN))

\* Noise the three-state assembler discards byte by byte: every 0x21 in it is
\* followed by a noise byte that is neither 0x47 nor another 0x21.
IsLineNoise(s) ==
    \A i \in 1..Len(s) :
        s[i] = MARKER0 => (i < Len(s) /\ s[i + 1] \notin {MARKER0, MARKER1})

LastFrame(s) == SubSeq(s, Len(s) - FRAME_LEN + 1, Len(s))
Before(s) == SubSeq(s, 1, Len(s) - FRAME_LEN)

\* The bit pattern of the wire format at frame position o (1-based).
WireValue(f, o) == Pattern(f[o], f[o + 1], f[o + 2], f[o + 3])

Printed(msg) == \E i \in DOMAIN diag : diag[i] = msg

-----------------------------------------------------------------------------
\* C1: a frame that fails validation (marker or checksum) is never decoded and
\* no motor command is emitted for it in that iteration of main.
C1_InvalidFrameNotPropagated ==
    (pc = "main" /\ diag # <<>> /\ ~IsValidFrame(BufferFrame))
        => (~decoded /\ cmds = <<>>)

\* C2: when a call of BLE_UART_InString has read noise followed by a valid
\* frame, it has returned 15 and offsets 0..14 of the caller's buffer hold
\* exactly that frame.
C2_Resynchronization ==
    (/\ Len(consumed) >= FRAME_LEN
     /\ IsValidFrame(LastFrame(consumed))
     /\ IsLineNoise(Before(consumed)))
        => (/\ pc # "instring"
            /\ length = FRAME_LEN
            /\ BufferFrame = LastFrame(consumed))

\* C3: whenever BLE_UART_InString returns, byte 0 of the caller's buffer is 0x21
\* and byte 1 is 0x47.
C3_ReturnedFrameStartsWithMarker ==
    pc = "returned" => (BLE_UART_Buffer[0] = MARKER0 /\ BLE_UART_Buffer[1] = MARKER1)

\* C4: BLE_UART_InString returns 15 when buffer_size >= 15 and buffer_size when
\* buffer_size < 15; it does not return while fewer bytes have been collected,
\* and the 15 bytes it returns for are the last 15 read, stored contiguously.
C4_ReturnedLength ==
    /\ pc = "returned" =>
          length = IF buffer_size >= FRAME_LEN THEN FRAME_LEN ELSE buffer_size
    /\ pc = "instring" => (length < FRAME_LEN /\ length < buffer_size)
    /\ (pc = "returned" /\ buffer_size >= FRAME_LEN) =>
          /\ Len(consumed) >= FRAME_LEN
          /\ \A k \in 1..FRAME_LEN :
                BLE_UART_Buffer[buffer_pointer - FRAME_LEN + k - 1]
                    = LastFrame(consumed)[k]

\* A call with buffer_size >= 15 has returned after discarding noise.
C4_Witness ==
    /\ pc = "returned"
    /\ buffer_size >= FRAME_LEN
    /\ Len(consumed) > FRAME_LEN
    /\ length = FRAME_LEN

\* C5: ValidateCRC accepts a buffer exactly when byte 14 is the complement of the
\* sum of bytes 0..13 mod 256 (every other value of byte 14 is rejected), and
\* ValidateBLEPacket accepts it exactly when, in addition, bytes 0 and 1 are
\* 0x21 0x47.
C5_ChecksumRoundTrip ==
    pc = "fn_validated" =>
        LET good == Checksum(BufferHead) IN
        /\ crcOK <=> (BLE_UART_Buffer[14] = good)
        /\ pktOK <=> (/\ BLE_UART_Buffer[14] = good
                      /\ BLE_UART_Buffer[0] = MARKER0
                      /\ BLE_UART_Buffer[1] = MARKER1)
        /\ \A v \in Byte :
              ValidateCRC([BLE_UART_Buffer EXCEPT ![14] = v]) <=> (v = good)

\* A frame whose 14 bytes sum past 255 and whose checksum byte is right was accepted.
C5_Witness ==
    /\ pc = "fn_validated"
    /\ SeqSum(BufferHead) > 255
    /\ BLE_UART_Buffer[14] = Checksum(BufferHead)
    /\ crcOK
    /\ pktOK

\* C6: ValidateBLEPacket rejects every buffer whose byte 0 is not 0x21 or whose
\* byte 1 is not 0x47, whatever the checksum byte.
C6_MarkerRejection ==
    (pc = "fn_validated" /\ (BLE_UART_Buffer[0] # MARKER0 \/ BLE_UART_Buffer[1] # MARKER1))
        => (~pktOK /\ Printed("Invalid BLE Packet"))

\* A buffer with one wrong marker byte and the right checksum was rejected.
C6_Witness ==
    /\ pc = "fn_validated"
    /\ BLE_UART_Buffer[0] = MARKER0
    /\ BLE_UART_Buffer[1] # MARKER1
    /\ BLE_UART_Buffer[14] = Checksum(BufferHead)
    /\ ~pktOK

\* C7: the directional commands MotorControlFromGyro emits are the y-axis command
\* (Forward if y > T, Backward if y < -T) followed by the x-axis command (Right
\* if x > T, Left if x < -T); Forward and Backward are never both emitted, nor
\* Left and Right.
C7_CommandMapping ==
    pc = "fn_mapped" =>
        /\ Directional(cmds) = YCommand(sample[2]) \o XCommand(sample[1])
        /\ ~(Emitted(Forward) /\ Emitted(Backward))
        /\ ~(Emitted(Left) /\ Emitted(Right))
        /\ (AboveT(sample[2]) /\ AboveT(sample[1])) => cmds = <<Forward, Right>>

\* A sample with y > T and x > T was mapped to Forward then Right.
C7_Witness ==
    /\ pc = "fn_mapped"
    /\ AboveT(sample[1])
    /\ AboveT(sample[2])
    /\ cmds = <<Forward, Right>>

\* C8: MotorControlFromGyro emits Stop exactly when |x| <= T and |y| <= T, and
\* then Stop is the only command emitted.
C8_StopOnlyWithinThreshold ==
    pc = "fn_mapped" =>
        /\ Emitted(Stop) <=> (WithinT(sample[1]) /\ WithinT(sample[2]))
        /\ Emitted(Stop) => cmds = <<Stop>>

\* A sample with both axes within the threshold was mapped to Stop alone.
C8_Witness ==
    /\ pc = "fn_mapped"
    /\ WithinT(sample[1])
    /\ WithinT(sample[2])
    /\ sample[1].mag # 0
    /\ cmds = <<Stop>>

\* C9: an iteration of main on an invalid frame prints a diagnostic; the next
\* call of BLE_UART_InString starts in state 0 with length 0 at offset 0; and a
\* valid frame arriving next is assembled at offsets 0..14, passes validation
\* and is mapped to the commands of its x and y values.
C9_SelfHealing ==
    /\ (pc = "main" /\ diag # <<>> /\ ~IsValidFrame(BufferFrame))
          => Printed("Invalid BLE Packet")
    /\ (afterInvalid /\ pc = "instring" /\ consumed = <<>>)
          => (state = 0 /\ length = 0 /\ buffer_pointer = 0)
    /\ (afterInvalid /\ IsValidFrame(consumed)) =>
          /\ pc # "instring"
          /\ length = FRAME_LEN
          /\ BufferFrame = consumed
          /\ pc = "main" =>
                /\ pktOK
                /\ Printed("Parsed Floats")
                /\ ~Printed("Invalid BLE Packet")
                /\ cmds = Commands(WireValue(consumed, 3), WireValue(consumed, 7))

\* After an iteration on an invalid frame, a valid frame was assembled,
\* validated and mapped to a command.
C9_Witness ==
    /\ pc = "main"
    /\ afterInvalid
    /\ IsValidFrame(consumed)
    /\ pktOK
    /\ cmds # <<>>

\* C10: for each axis ExtractFloat yields the little-endian bit pattern of the
\* four bytes at its offset (2, 6, 10), on a host of either byte order.
C10_LittleEndianDecode ==
    pc = "fn_decoded" =>
        \A k \in 1..3 : sample[k] = WireValue(BufferFrame, 4 * k - 1)

\* C11: the z value has no influence on the commands: for the x and y of the
\* sample, MotorControlFromGyro yields the emitted sequence (commands and duty
\* values) for every other z as well.
C11_ZHasNoInfluence ==
    pc = "fn_mapped" =>
        \A z \in FnValues \cup {F_ZERO, F_MARKERS} :
            MotorControlFromGyro(sample[1], sample[2], z) = cmds

\* A sample with a nonzero z was mapped to a command.
C11_Witness ==
    /\ pc = "fn_mapped"
    /\ sample[3] # F_ZERO
    /\ WithinT(sample[1])
    /\ ~WithinT(sample[2])
    /\ cmds # <<>>

\* C12: whenever BLE_UART_InString is scanning in state 0 (Idle), the length is
\* 0 and the write position is at the start of the caller's buffer; in
\* particular after a byte other than 0x47 has followed a stored 0x21.
C12_MismatchResetsBuffer ==
    (pc = "instring" /\ state = 0) => (length = 0 /\ buffer_pointer = 0)

\* C13: every byte BLE_UART_InString stores lands at an offset in
\* 0..buffer_size-1 of the caller's buffer.
C13_StoresWithinBuffer ==
    \A o \in stores : 0 <= o /\ o < buffer_size

\* C14: while BLE_UART_InString is collecting (0x21 0x47 stored), a step that
\* reads a byte appends that byte, whatever its value, at the write position,
\* adds one to the length and stays in state 2; the call returns with that step
\* exactly when the length reaches 15.
C14_NoInspectionWhileCollecting ==
    [][(pc = "instring" /\ state = 2 /\ consumed' # consumed) =>
          /\ rx # <<>>
          /\ consumed' = Append(consumed, Head(rx))
          /\ BLE_UART_Buffer' = [BLE_UART_Buffer EXCEPT ![buffer_pointer] = Head(rx)]
          /\ buffer_pointer' = buffer_pointer + 1
          /\ length' = length + 1
          /\ state' = 2
          /\ (pc' = "returned") <=> (length' = FRAME_LEN)
          /\ (pc' = "instring") <=> (length' < FRAME_LEN)]_vars

\* In the middle of a frame the bytes 0x21 0x47 have just been appended as data.
C14_Witness ==
    /\ pc = "instring"
    /\ state = 2
    /\ length > 3
    /\ length < FRAME_LEN
    /\ consumed[Len(consumed) - 1] = MARKER0
    /\ consumed[Len(consumed)] = MARKER1
    /\ BLE_UART_Buffer[buffer_pointer - 2] = MARKER0
    /\ BLE_UART_Buffer[buffer_pointer - 1] = MARKER1

\* The three-state assembler run over s from index i in scan state st ("Idle"
\* or "Matched"): the index of the first 0x21 that is accepted in Idle and
\* immediately followed by 0x47, or 0 when there is none.
RECURSIVE AcceptedAt(_, _, _)
AcceptedAt(s, i, st) ==
    IF i > Len(s) THEN 0
    ELSE IF st = "Idle"
         THEN AcceptedAt(s, i + 1, IF s[i] = MARKER0 THEN "Matched" ELSE "Idle")
    ELSE IF s[i] = MARKER1 THEN i - 1
    ELSE AcceptedAt(s, i + 1, "Idle")

\* The byte sequence holds a 0x21 accepted in Idle, immediately followed by
\* 0x47 and by exactly n further bytes.
MarkerThenBytes(s, n) ==
    LET i == AcceptedAt(s, 1, "Idle")
    IN  i > 0 /\ Len(s) = i + 1 + n

\* C15: a call of BLE_UART_InString with buffer_size >= 15 has returned exactly
\* when the bytes it read hold a 0x21 accepted in Idle, immediately followed by
\* 0x47 and 13 further bytes; until then it keeps reading, and as long as the
\* first call has not returned no command has been emitted.
C15_ReturnsIffMarkerAndThirteen ==
    /\ (pc \in {"instring", "returned"} /\ buffer_size >= FRAME_LEN) =>
          ((pc = "returned") <=> MarkerThenBytes(consumed, FRAME_LEN - 2))
    /\ (pc = "instring" /\ buffer_size >= FRAME_LEN) =>
          \A n \in 0..(FRAME_LEN - 3) :
              MarkerThenBytes(consumed, n) => (state = 2 /\ length = n + 2)
    /\ (pc = "instring" /\ diag = <<>>) => cmds = <<>>

\* The call is still reading after bytes that look like a marker pair but whose
\* 0x21 was not accepted in Idle (0x21 0x21 0x47), and no command was emitted.
C15_Witness ==
    /\ pc = "instring"
    /\ Len(consumed) >= FRAME_LEN
    /\ \E i \in 1..(Len(consumed) - 2) :
          /\ consumed[i] = MARKER0
          /\ consumed[i + 1] = MARKER0
          /\ consumed[i + 2] = MARKER1
    /\ ~MarkerThenBytes(consumed, FRAME_LEN - 2)
    /\ state = 0
    /\ cmds = <<>>

\* |v| > T: a number (not a NaN) beyond the threshold.
BeyondT(v) == ~NotANumber(v) /\ MagAboveT(v.mag)

\* Exactly one of the two axes is within the threshold and the other is beyond it.
OneWithinOtherBeyond(x, y) ==
    \/ WithinT(x) /\ BeyondT(y)
    \/ WithinT(y) /\ BeyondT(x)

\* Binary32 numbers of both signs across the exponent range, with fractions
\* at the ends of the range and on either side of the threshold's fraction.
ProbeValues ==
    { Float32(sign, e * 8388608 + f) :
        sign \in {0, 1},
        e \in {0, 1, 100, 123, 124, 125, 127, 200, 254},
        f \in {0, 1, 5033164, 5033165, 8388607} }
    \cup { Float32(0, 2139095040), Float32(1, 2139095040) }

\* C16 as stated: some sample with exactly one axis within the threshold and
\* the other beyond it makes MotorControlFromGyro emit no command at all. The
\* sample is sought among the probe values and the values decoded last.
C16_NoCommandPossible ==
    \E x \in ProbeValues \cup {sample[1], sample[2]},
       y \in ProbeValues \cup {sample[1], sample[2]} :
        /\ OneWithinOtherBeyond(x, y)
        /\ MotorControlFromGyro(x, y, sample[3]) = <<>>

\* C16, amended: a sample with exactly one axis within the threshold and the
\* other beyond it always makes MotorControlFromGyro emit exactly one
\* directional command (and no Stop); no command at all is emitted exactly
\* when x or y is a NaN and neither is beyond the threshold.
C16_OneAxisBeyondEmitsCommand ==
    pc = "fn_mapped" =>
        /\ OneWithinOtherBeyond(sample[1], sample[2]) =>
              (Len(cmds) = 1 /\ IsDirectional(cmds[1]))
        /\ (cmds = <<>>) <=>
              (/\ NotANumber(sample[1]) \/ NotANumber(sample[2])
               /\ ~BeyondT(sample[1])
               /\ ~BeyondT(sample[2]))

\* x within the threshold and y only just over it: Forward alone was emitted.
C16_Witness ==
    /\ pc = "fn_mapped"
    /\ WithinT(sample[1])
    /\ sample[2] = F_JUST_ABOVE
    /\ cmds = <<Forward>>

\* The buffer has the frame prefix 0x21 0x47.
HasMarker == BLE_UART_Buffer[0] = MARKER0 /\ BLE_UART_Buffer[1] = MARKER1
\* Byte 14 of the buffer is the checksum of bytes 0..13.
HasChecksum == BLE_UART_Buffer[14] = Checksum(BufferHead)

\* C17: BLE_UART_HandleRxData calls ParseBLEPacket exactly when len = 15, the
\* prefix is 0x21 0x47 and the checksum is right; a wrong length or prefix is
\* reported as invalid data without the checksum being examined; a wrong
\* checksum is reported only when length and prefix are right; after either
\* report nothing is parsed.
C17_HandleRxDataGatesParsing ==
    pc = "fn_handled" =>
        /\ Printed("ParseBLEPacket") <=> (len_arg = FRAME_LEN /\ HasMarker /\ HasChecksum)
        /\ (len_arg # FRAME_LEN \/ ~HasMarker) => diag = <<"Error: Invalid data received">>
        /\ Printed("Error: CRC check failed") <=>
              (len_arg = FRAME_LEN /\ HasMarker /\ ~HasChecksum)
        /\ Printed("Error: CRC check failed") =>
              diag = <<"checkCRC", "Error: CRC check failed">>

\* A 15-byte packet with the right prefix and a wrong checksum was reported as
\* a CRC failure and not parsed.
C17_Witness ==
    /\ pc = "fn_handled"
    /\ len_arg = FRAME_LEN
    /\ HasMarker
    /\ ~HasChecksum
    /\ diag = <<"checkCRC", "Error: CRC check failed">>

\* C18: checkCRC and ValidateCRC give the same verdict on the buffer, so a
\* packet BLE_UART_HandleRxData forwards to ParseBLEPacket passes the validation
\* there and "Invalid BLE Packet" is not printed.
C18_ValidatorsAgree ==
    /\ pc \in {"fn_handled", "fn_validated"} =>
          (checkCRC(BLE_UART_Buffer) <=> ValidateCRC(BLE_UART_Buffer))
    /\ pc = "fn_validated" => (crcOK <=> checkCRC(BLE_UART_Buffer))
    /\ (pc = "fn_handled" /\ Printed("ParseBLEPacket")) =>
          (Printed("Parsed Floats") /\ ~Printed("Invalid BLE Packet"))

\* A packet whose 14 bytes sum past 255 was forwarded and parsed.
C18_Witness ==
    /\ pc = "fn_handled"
    /\ SeqSum(BufferHead) > 255
    /\ diag = <<"checkCRC", "ParseBLEPacket", "Parsed Floats">>

====
